---- MODULE Spec2Model ----
(***************************************************************************)
(* The ledger-resident authorization routine of the ZK-OTP protocol        *)
(* (zkOTPWallet), driven through the mock verifying oracle (VerifierMock). *)
(* The wallet contract's own source is not among the repository files at   *)
(* hand; its operations are modelled from section 4.5 of the specification *)
(* and from what the two test suites (Foundry, Hardhat) call and expect.   *)
(*                                                                         *)
(* The off-ledger service is modelled from its code: the registration      *)
(* handlers of the servers found in the repository, the demo client's      *)
(* checkUser / registerUser, the proof-request handlers, the two proof     *)
(* assemblers and the TOTP circuit, and the library functions they use:    *)
(* computeActionHash, encryptWithSalt / decryptWithSalt, computeTOTP6.     *)
(* TrafficLightZkOTP, the contract a proof alone switches, is modelled     *)
(* from its two sources.                                                   *)
(***************************************************************************)
EXTENDS Integers, Sequences, FiniteSets, TLC

VARIABLES
    owner,               \* zkOTPWallet.owner
    admin,               \* zkOTPWallet.admin
    hashedSecretConfig,  \* zkOTPWallet.hashedSecretConfig (0 = default, unset)
    usedNonces,          \* zkOTPWallet.usedNonces, as the set of marked nonces
    shouldVerify,        \* VerifierMock.shouldVerify
    performed,           \* per nonce, the target calls performed and not rolled back
    stack,               \* the execute calls whose target call is in progress
    last,                \* the outcome of the most recent call made on the wallet
    variant,             \* which zkOTPWallet is deployed: the one the Hardhat suite
                         \* tests or the one the Foundry suite tests
    server,              \* which server of the off-ledger service is deployed
    users,               \* the account store: per uid, the rows or the document held
    reqs,                \* the registration requests, per slot
    userRegistrationCache,  \* the demo client's cache of checkUser answers
    clientOk,            \* the uids whose registerUser returned true at the client
    clientLast,          \* the most recent call of the demo client
    now,                 \* the server's time step, Math.floor(Date.now() / 30000)
    env,                 \* the server's configuration and files
    reply,               \* the answer to the most recent proof request
    probe,               \* the most recent call of a library function, with
                         \* what it was given and what it gave back
    gate,                \* which TrafficLightZkOTP is deployed
    greenLight,          \* TrafficLightZkOTP.greenLight (isLightOn in the other)
    gateLast             \* the outcome of the most recent call on that contract

walletVars == <<owner, admin, hashedSecretConfig, usedNonces, shouldVerify, performed,
                stack, last>>

registerVars == <<users, reqs, userRegistrationCache, clientOk, clientLast>>

proofVars == <<now, reply>>

gateVars == <<gate, greenLight, gateLast>>

vars == <<walletVars, variant, server, registerVars, env, proofVars, probe, gateVars>>

----------------------------------------------------------------------------
(* Bounds *)

\* the server's clock runs over the time steps 0..MaxStep
MaxStep == 1

\* at most MaxToggles calls on TrafficLightZkOTP succeed
MaxToggles == 3

\* nonces are drawn from 0..MaxNonce
MaxNonce == 1

\* how many execute calls may be nested (an execute, and executes re-entered
\* from the target call it makes)
MaxDepth == 2

\* the count of target calls performed under one nonce is cut here; the
\* wallet performs at most one, so it never reaches the cut
MaxPerformed == 2

----------------------------------------------------------------------------
(* Fixtures of the test suites *)

ownerAddr == 1      \* address(0x1111)
adminAddr == 2      \* address(0x2222)
someUser == 3       \* address(0x3333)

Addresses == {ownerAddr, adminAddr, someUser}

\* the accounts the roles are handed to in the tests
NewOwners == {ownerAddr, someUser}
NewAdmins == {adminAddr, someUser}

Nonces == 0..MaxNonce

\* 0 is the default (unset) value of a uint256 storage slot
HashedSecrets == {0, 777}

\* (to, value, data) of the calls the tests authorize: the empty call to
\* someUser, the same call with a payload, and a call that differs from both
\* in target and value
Triples ==
    { [to |-> someUser, value |-> 0, data |-> << >>],
      [to |-> someUser, value |-> 0, data |-> <<1>>],
      [to |-> adminAddr, value |-> 1, data |-> << >>] }

----------------------------------------------------------------------------
(* The action hash: uint256(keccak256(abi.encodePacked(_to, _value, _data))) *)

\* a packing that leaves the payload out of the packed string
encodePackedNoPayload(to, value, data) == <<to, value>>

\* abi.encodePacked of (address, uint256, bytes): the fixed-width target,
\* the fixed-width value, then the payload bytes, with no padding and no
\* length prefix.  A fixed-width field is one symbol of the packed string.
encodePacked(to, value, data) == <<to, value>> \o data

\* every symbol of a packed string is below Radix
Radix == someUser + 1

RECURSIVE Digest(_)
\* keccak256 as a collision-free digest of the packed string: the string read
\* as a numeral in base Radix behind a leading 1
Digest(bytes) ==
    IF bytes = << >> THEN 1
    ELSE Digest(SubSeq(bytes, 1, Len(bytes) - 1)) * Radix + bytes[Len(bytes)]

keccak256(bytes) == Digest(bytes)

ActionHash(to, value, data) == keccak256(encodePacked(to, value, data))

\* an action hash that is the hash of no triple (999999 and 7777 in the tests)
BogusHash == 0

ActionHashes == {ActionHash(t.to, t.value, t.data) : t \in Triples} \cup {BogusHash}

\* publicSignals = [hashedSecret, hashedOtp, timeStep, actionHash, txNonce]
Signals == [hashedSecret : HashedSecrets, hashedOtp : {0}, timeStep : {0},
            actionHash : ActionHashes, txNonce : Nonces]

\* the hashed codes a proof may carry
HashedOtps == {0, 555}

\* the signals of proofs of any age: issued for the empty call to someUser or
\* for no call, at any time step, for any code
SignalsOfAnyAge ==
    [hashedSecret : HashedSecrets, hashedOtp : HashedOtps, timeStep : 0..MaxStep,
     actionHash : {ActionHash(someUser, 0, << >>), BogusHash}, txNonce : Nonces]

----------------------------------------------------------------------------
(* VerifierMock *)

\* a verifier that accepts whatever shouldVerify says
verifyProofAlways(a, b, c, input) == TRUE

\* the mock ignores the proof and the signals
verifyProof(a, b, c, input) == shouldVerify

\* the proof placeholders the tests pass
ProofA == <<1, 2>>
ProofB == <<<<3, 4>>, <<5, 6>>>>
ProofC == <<7, 8>>

----------------------------------------------------------------------------
(* zkOTPWallet.execute: the four checks, in order *)

\* a proof check that also wants the proof to be of the first time step
ProofOkFresh(input) ==
    verifyProof(ProofA, ProofB, ProofC, input) /\ input.timeStep = 0

ProofOk(input) == verifyProof(ProofA, ProofB, ProofC, input)

\* the config read as a whitelist entry: only its own hashed secret passes
SecretOkWhitelist(input) == input.hashedSecret = hashedSecretConfig

\* the comparison made against the value the slot had at deployment
SecretOkStale(input) == input.hashedSecret # 0

SecretOk(input) == input.hashedSecret # hashedSecretConfig

HashOk(t, input) == ActionHash(t.to, t.value, t.data) = input.actionHash

\* the nonce check left out
NonceOkAlways(input) == TRUE

NonceOk(input) == input.txNonce \notin usedNonces

\* the action hash checked before the proof and the hashed secret
ExecuteChecksHashFirst(t, input) ==
    IF ~HashOk(t, input) THEN "Action hash mismatch"
    ELSE IF ~ProofOk(input) THEN "Invalid ZK proof"
    ELSE IF ~SecretOk(input) THEN "Invalid hashed secret"
    ELSE IF ~NonceOk(input) THEN "Nonce already used"
    ELSE "pass"

\* the require statements of execute, first failure wins
ExecuteChecks(t, input) ==
    IF ~ProofOk(input) THEN "Invalid ZK proof"
    ELSE IF ~SecretOk(input) THEN "Invalid hashed secret"
    ELSE IF ~HashOk(t, input) THEN "Action hash mismatch"
    ELSE IF ~NonceOk(input) THEN "Nonce already used"
    ELSE "pass"

Rejections == {"Invalid ZK proof", "Invalid hashed secret",
               "Action hash mismatch", "Nonce already used"}

\* the nonce marked on entry and the failure answered without a revert
NoncesOnRevertMarked(n) == usedNonces \cup {n}

\* usedNonces after a failed require: the revert leaves storage as on entry
NoncesOnRevert(n) == usedNonces

\* the nonce left unmarked until the target call has returned
NoncesDuringCallUnmarked(n) == usedNonces

\* usedNonces as the target call sees it: the nonce is marked before the call
NoncesDuringCall(n) == usedNonces \cup {n}

\* the failure of the target call answered without a revert: the mark stays
NoncesOnTargetFailureMarked(snap) == usedNonces

\* usedNonces after require(success, "Action execution failed") has failed:
\* the revert takes the mark back with everything else
NoncesOnTargetFailure(snap) == snap.usedNonces

\* the storage a revert of the current call restores
WalletState ==
    [owner |-> owner, admin |-> admin, hashedSecretConfig |-> hashedSecretConfig,
     usedNonces |-> usedNonces, performed |-> performed]

NoArgs == [to |-> 0, value |-> 0, data |-> << >>]
NoSignals == [hashedSecret |-> 0, hashedOtp |-> 0, timeStep |-> 0,
              actionHash |-> 0, txNonce |-> 0]

\* an event that carries the value held before the call and the new one
EventOldNew(name, old, new) == <<name, old, new>>

\* HashedSecretConfigChanged as the Hardhat suite receives it: both arguments
\* are the value just stored
EventNewNew(name, old, new) == <<name, new, new>>

\* the event a call emits, from what it was called with and how it ended
EventOf(op, res, arg, pre) ==
    IF res # "ok" THEN << >>
    ELSE IF op = "setOwner" THEN EventOldNew("OwnerChanged", pre.owner, arg)
    ELSE IF op = "setAdmin" THEN EventOldNew("AdminChanged", pre.admin, arg)
    ELSE IF op = "setHashedSecretConfig"
         THEN EventNewNew("HashedSecretConfigChanged", pre.hashedSecretConfig, arg)
    ELSE << >>

\* the record kept of a call: what was called with what, what it answered,
\* the storage on entry, how many target calls were in progress on entry and
\* the event emitted
Outcome(op, res, caller, arg, t, input, pre, depth) ==
    [op |-> op, res |-> res, caller |-> caller, arg |-> arg, t |-> t,
     input |-> input, pre |-> pre, depth |-> depth,
     event |-> EventOf(op, res, arg, pre)]

\* the two deployed contracts: the Hardhat suite's wallet lets only the owner
\* call setAdmin, the Foundry suite's wallet lets only the admin call it
Variants == {"hardhat", "foundry"}

\* setAdmin open to the owner alone, in both contracts
AdminGateOwnerOnly ==
    [account |-> owner, error |-> "Not owner"]

\* who may call setAdmin, and what any other caller is told
AdminGate ==
    IF variant = "foundry"
    THEN [account |-> admin, error |-> "Not admin"]
    ELSE [account |-> owner, error |-> "Not owner"]

WalletInit ==
    /\ owner = ownerAddr
    /\ admin = adminAddr
    /\ hashedSecretConfig = 0
    /\ usedNonces = {}
    /\ shouldVerify = TRUE
    /\ performed = [n \in Nonces |-> 0]
    /\ stack = << >>
    /\ last = Outcome("deploy", "ok", 0, 0, NoArgs, NoSignals,
                      [owner |-> ownerAddr, admin |-> adminAddr,
                       hashedSecretConfig |-> 0, usedNonces |-> {},
                       performed |-> [n \in Nonces |-> 0]], 0)

----------------------------------------------------------------------------
(* TrafficLightZkOTP: the contract with switchLight, and the one with turnOn *)
(* and turnOff                                                               *)

Gates == {"switchLight", "turnOnOff"}

\* alice and bob of the Foundry suite
GateCallers == {"alice", "bob"}

\* what is passed as input: the array of the tests, and one more
GateInputs == {s \in Signals : s.hashedSecret = 0 /\ s.actionHash = BogusHash}

\* a gate that lets every call through
GateChecksNone(ok, input, accepted) == TRUE

\* a gate that lets an input through once
GateChecksOnce(ok, input, accepted) ==
    ok /\ \A e \in accepted : e.input # input

\* require(ok, "Invalid ZK proof"): all that a call is checked for
GateChecks(ok, input, accepted) == ok

\* a switch that only ever turns the light on
SwitchedOn(light) == TRUE

\* greenLight = !greenLight
Switched(light) == ~light

LightToggled(state) == <<"LightToggled", state>>

\* a call on the contract: the verifier is asked; unless it returned true the
\* call reverts, otherwise the light is set and LightToggled is emitted
GateCall(op, caller, input, light) ==
    /\ gateLast.toggles < MaxToggles
    /\ LET ok == verifyProof(ProofA, ProofB, ProofC, input)
           passed == GateChecks(ok, input, gateLast.accepted)
       IN /\ greenLight' = IF passed THEN light ELSE greenLight
          /\ gateLast' = [op |-> op, caller |-> caller, input |-> input, ok |-> ok,
                          res |-> IF passed THEN "ok" ELSE "Invalid ZK proof",
                          pre |-> greenLight,
                          event |-> IF passed THEN LightToggled(light) ELSE << >>,
                          toggles |-> IF passed THEN gateLast.toggles + 1
                                      ELSE gateLast.toggles,
                          accepted |-> IF passed
                                       THEN gateLast.accepted
                                            \cup {[input |-> input, caller |-> caller]}
                                       ELSE gateLast.accepted]
    /\ UNCHANGED gate

\* switchLight(a, b, c, input)
switchLight(caller, input) ==
    /\ gate = "switchLight"
    /\ GateCall("switchLight", caller, input, Switched(greenLight))

\* turnOn(a, b, c, input)
turnOn(caller, input) ==
    /\ gate = "turnOnOff"
    /\ GateCall("turnOn", caller, input, TRUE)

\* turnOff(a, b, c, input)
turnOff(caller, input) ==
    /\ gate = "turnOnOff"
    /\ GateCall("turnOff", caller, input, FALSE)

----------------------------------------------------------------------------
(* The off-ledger service: the account store and the registration handlers *)

\* registration requests the server may be working on at once
MaxRequests == 2

Uids == {"alice", "bob"}

\* the uid the registration requests are for
Applicants == {"alice"}

\* a raw secret, written as the integer its base32 text decodes to
RawSecrets == {11, 12}

\* crypto.randomBytes(12), drawn afresh by every encryption
IVs == {0, 1}

\* The servers found in the repository:
\*   "app"        POST /registerUser selects, then inserts (users table)
\*   "functions"  registerUser gets the document, then sets it
\*   "firestore"  POST /user/register sets the document; GET /user/check
\*   "memory"     POST /user/register sets the entry of an in-memory map
Servers == {"app", "functions", "firestore", "memory"}

TwoStepServers == {"app", "functions"}

Slots == 1..MaxRequests

\* process.env.ENCRYPTION_WORD as it was when the secrets were stored
MasterPassword == "word"

\* crypto.pbkdf2Sync(password, salt, 100000, 32, 'sha256')
DeriveKey(password, salt) == <<password, salt>>

\* an encryption that draws the same IV every time
encryptWithFixedIv(plaintext, salt, iv) ==
    [iv |-> 0, key |-> DeriveKey(MasterPassword, salt), text |-> plaintext,
     authTag |-> "valid"]

\* encryptWithSalt(plaintext, salt), with the IV it drew: "IV:ciphertext:authTag".
\* The ciphertext is the plaintext sealed under the derived key; the tag
\* authenticates it.
encryptWithSalt(plaintext, salt, iv) ==
    [iv |-> iv, key |-> DeriveKey(MasterPassword, salt), text |-> plaintext,
     authTag |-> "valid"]

\* the document or row stored for a registration
Row(uid, secret, iv) == encryptWithSalt(secret, uid, iv)

Exists(uid) == users[uid] # << >>

Idle ==
    [pc |-> "idle", uid |-> "", secret |-> 0, status |-> 0, body |-> "",
     registered |-> FALSE, kept |-> TRUE, with |-> {}]

\* a request answered: what it asked, what it was told, whether its uid was
\* registered when it arrived, whether it left what the store holds for the
\* uid as it was, and the requests that were between their read and their
\* write while it was
Answered(r, status, body, kept) ==
    [r EXCEPT !.pc = "done", !.status = status, !.body = body, !.kept = kept]

\* slot p takes a new request: the slots that overlapped its previous one forget it
Forget(rs, p) == [q \in Slots |-> [rs[q] EXCEPT !.with = @ \ {p}]]

\* the store write of the select-then-insert handlers, done whatever the store
\* holds by now: insert adds a row, set replaces the document
WriteUnchecked(uid, row) ==
    IF server = "app" THEN Append(users[uid], row) ELSE <<row>>

\* POST /registerUser (app.js), registerUser (functions), up to the answer of
\* the store read: an existing user is told so; otherwise the handler goes on
\* to write
registerUserRead(p, uid, secret) ==
    /\ server \in TwoStepServers
    /\ reqs[p].pc # "read"
    /\ LET new == [Idle EXCEPT !.uid = uid, !.secret = secret,
                               !.registered = Exists(uid)]
           rs == Forget(reqs, p)
           reading == {q \in Slots \ {p} : reqs[q].pc = "read"}
       IN IF Exists(uid)
          THEN reqs' = [rs EXCEPT ![p] = Answered(new, 400, "User already exists",
                                                   TRUE)]
          ELSE reqs' = [q \in Slots |->
                          IF q = p THEN [new EXCEPT !.pc = "read", !.with = reading]
                          ELSE IF q \in reading
                               THEN [rs[q] EXCEPT !.with = @ \cup {p}]
                               ELSE rs[q]]
    /\ UNCHANGED <<users, userRegistrationCache, clientOk, clientLast>>

\* ... and from there: the insert (its error is thrown and answered 500; the
\* table's uniqueness rule is not in the repository, so an insert for a uid
\* that has a row by now either adds a second row or fails) or the set
registerUserWrite(p) ==
    /\ server \in TwoStepServers
    /\ reqs[p].pc = "read"
    /\ \E iv \in IVs, unique \in BOOLEAN :
         LET uid == reqs[p].uid
             row == Row(uid, reqs[p].secret, iv)
         IN IF server = "app" /\ unique /\ Exists(uid)
            THEN /\ reqs' = [reqs EXCEPT ![p] = Answered(@, 500,
                                                "Internal Server Error", TRUE)]
                 /\ UNCHANGED users
            ELSE /\ users' = [users EXCEPT ![uid] = WriteUnchecked(uid, row)]
                 /\ reqs' = [reqs EXCEPT ![p] = Answered(@, 200,
                                                "User registered successfully",
                                                users'[uid] = users[uid])]
    /\ UNCHANGED <<userRegistrationCache, clientOk, clientLast>>

\* the store write of POST /user/register: set, whatever is there
SetAlways(uid, row) == <<row>>

\* POST /user/register: encrypts and sets, without a look at the store
userRegister(p, uid, secret) ==
    /\ server \in {"firestore", "memory"}
    /\ \E iv \in IVs :
         /\ users' = [users EXCEPT ![uid] = SetAlways(uid, Row(uid, secret, iv))]
         /\ reqs' = [Forget(reqs, p) EXCEPT ![p] =
                        Answered([Idle EXCEPT !.uid = uid, !.secret = secret,
                                              !.registered = Exists(uid)],
                                 200, "User registered successfully",
                                 users'[uid] = users[uid])]
    /\ UNCHANGED <<userRegistrationCache, clientOk, clientLast>>

\* GET /user/check?uid=...: 200 {registered: true} or 404 {registered: false}
userCheck(uid) == Exists(uid)

NoCall == [op |-> "none", uid |-> "", registered |-> FALSE, after |-> FALSE,
           stored |-> FALSE]

\* what checkUser finds in userRegistrationCache: any cached answer is an
\* object, hence truthy, and is returned as it is
Cached(uid) == userRegistrationCache[uid]

\* checkUser(uid) of the demo client: the cached answer if there is one,
\* otherwise the server's, which it caches (200 and 404 alike)
checkUser(uid) ==
    /\ server = "firestore"
    /\ LET answer == IF Cached(uid) # "none" THEN Cached(uid) = "yes"
                     ELSE userCheck(uid)
       IN /\ userRegistrationCache' =
                [userRegistrationCache EXCEPT ![uid] =
                    IF answer THEN "yes" ELSE "no"]
          /\ clientLast' = [op |-> "checkUser", uid |-> uid, registered |-> answer,
                            after |-> uid \in clientOk, stored |-> Exists(uid)]
    /\ UNCHANGED <<users, reqs, clientOk>>

\* registerUser(uid, secret) of the demo client: POST /user/register, true on
\* a 2xx answer; the cache is left as it is
registerUserClient(uid, secret) ==
    /\ server = "firestore"
    /\ \E iv \in IVs :
         users' = [users EXCEPT ![uid] = SetAlways(uid, Row(uid, secret, iv))]
    /\ clientOk' = clientOk \cup {uid}
    /\ clientLast' = [op |-> "registerUser", uid |-> uid, registered |-> TRUE,
                      after |-> uid \in clientOk, stored |-> Exists(uid)]
    /\ UNCHANGED <<reqs, userRegistrationCache>>

----------------------------------------------------------------------------
(* The off-ledger service: proof requests *)

TimeSteps == 0..MaxStep

\* the bytes of an HMAC-SHA1 digest are numbered 1..DigestLen here (0..19 in
\* the code)
DigestLen == 20

\* crypto.createHmac("sha1", secretBytes).update(msg).digest(): twenty bytes
\* fixed by the secret and the time step
HmacSha1(secretBytes, timeStep) ==
    [i \in 1..DigestLen |-> (secretBytes * 37 + timeStep * 101 + i * 59) % 256]

\* digest[19] & 0x0f
Offset(digest) == digest[DigestLen] % 16

\* the first byte read, shifted to the top of a 32-bit integer with its own
\* top bit kept: a byte of 128 or more makes the integer negative
TopByteKept(byte) == IF byte >= 128 THEN byte - 256 ELSE byte

\* digest[offset] & 0x7f
TopByte(byte) == byte % 128

\* binCode: the four bytes at the offset as one 32-bit integer
BinCode(digest) ==
    LET offset == Offset(digest) IN
    TopByte(digest[offset + 1]) * 2^24 + digest[offset + 2] * 2^16
        + digest[offset + 3] * 2^8 + digest[offset + 4]

\* the % of the language: the remainder has the sign of the dividend
Remainder(x, n) == IF x < 0 THEN 0 - ((0 - x) % n) ELSE x % n

\* binCode % 1000000
DynamicTruncation(digest) == Remainder(BinCode(digest), 1000000)

\* computeTOTP6(secretBytes, timeStep)
computeTOTP6(secretBytes, timeStep) == DynamicTruncation(HmacSha1(secretBytes, timeStep))

\* computePoseidonHash(xField): a collision-free digest
computePoseidonHash(xField) == <<"poseidon", xField>>

Codes == {computeTOTP6(s, ts) : s \in RawSecrets, ts \in TimeSteps}

\* the otp of a request body: a number (or decimal text), or text that is no number
Otps == [kind : {"number"}, value : Codes] \cup {[kind |-> "text", value |-> 0]}

\* BigInt(otp): a SyntaxError for text that is no number
BigIntThrows(otp) == otp.kind # "number"

\* the circuit the proving files were compiled from: the packaged totp.circom,
\* whose seven signals are all inputs of a main component that declares none
\* of them public, or the circuit that copies the five public values to
\* outputs
Circuits == {"inputsOnly", "withOutputs"}

\* the environment of a deployment: the master password now configured, the
\* verification key file (right, of another setup, or absent) and the proving
\* files (totp.wasm, the zkey)
Envs == [password : {MasterPassword, "other"},
         vkey : {"ok", "mismatch", "missing"},
         prover : {"ok", "broken"},
         circuit : Circuits]

\* everything in place, for a circuit
Healthy(circuit) ==
    [password |-> MasterPassword, vkey |-> "ok", prover |-> "ok", circuit |-> circuit]

\* process.env.ENCRYPTION_ALGORITHM, an authenticated cipher
algorithm == "aes-256-gcm"

IsGcm == algorithm = "aes-256-gcm"

Returned(v) == [thrown |-> FALSE, value |-> v, error |-> ""]

Thrown(e) == [thrown |-> TRUE, value |-> 0, error |-> e]

\* a decryption that releases the text without authenticating it
decryptUnauthenticated(blob, salt, password) == Returned(blob.text)

\* decryptWithSalt(encryptedString, salt): under GCM a missing tag throws, and
\* decipher.final throws when the tag does not authenticate the ciphertext
\* under the key derived now
decryptWithSalt(blob, salt, password) ==
    IF IsGcm /\ blob.authTag = "" THEN Thrown("No authTag provided for GCM decryption.")
    ELSE IF IsGcm /\ (blob.authTag # "valid" \/ DeriveKey(password, salt) # blob.key)
         THEN Thrown("Unsupported state or unable to authenticate data")
    ELSE Returned(blob.text)

\* the input object the handlers build for the prover
ProofInput(secret, otpValue, timeStep, actionHash, txNonce) ==
    [secret |-> secret,
     computedOtp |-> computeTOTP6(secret, timeStep),
     hashedSecret |-> computePoseidonHash(secret),
     hashedOtp |-> computePoseidonHash(otpValue),
     timeStep |-> timeStep,
     actionHash |-> actionHash,
     txNonce |-> txNonce]

\* TOTPCircuit: poseidonSecret.out === hashed_secret, poseidonOtp.out === hashed_otp,
\* with secret and otp_code (the computedOtp of the input) hashed
TOTPCircuit(input) ==
    /\ computePoseidonHash(input.secret) = input.hashedSecret
    /\ computePoseidonHash(input.computedOtp) = input.hashedOtp

\* the BN254 scalar field prime, scaled to the digests of the model as the
\* prime is to keccak256 outputs: some digests lie below it, some do not
FieldPrime == 101

\* a number given to the circuit as a signal is taken modulo the field prime
ToField(x) == x % FieldPrime

\* the public signals of a proof: the outputs of the circuit, in the order
\* they are declared (the Poseidon hashes are field elements already)
PublicSignals(circuit, input) ==
    IF circuit = "withOutputs"
    THEN <<input.hashedSecret, input.hashedOtp, ToField(input.timeStep),
           ToField(input.actionHash), ToField(input.txNonce)>>
    ELSE << >>

\* a Groth16 proof as the prover gives it: every group element with its
\* projective third coordinate
Groth16Proof ==
    [pi_a |-> <<1, 2, 1>>, pi_b |-> <<<<4, 3>>, <<6, 5>>, <<1, 0>>>>, pi_c |-> <<7, 8, 1>>]

\* no proof object
NoProof == [a |-> << >>, b |-> << >>, c |-> << >>, publicInput |-> << >>]

\* snarkjs.groth16.fullProve: throws when the proving files cannot be used or
\* the witness does not satisfy the circuit; otherwise the proof and its
\* public signals
fullProve(input, e) ==
    IF e.prover # "ok" THEN Thrown("prover")
    ELSE IF ~TOTPCircuit(input) THEN Thrown("witness")
    ELSE Returned([proof |-> Groth16Proof,
                   publicSignals |-> PublicSignals(e.circuit, input)])

\* a number as the 0x-prefixed hexadecimal text of the calldata
p256(n) == <<"0x", n>>

\* snarkjs.groth16.exportSolidityCallData, as the tokens of its text: a0, a1,
\* b01, b00, b11, b10, c0, c1, then the public signals
exportSolidityCallData(proof, publicSignals) ==
    <<p256(proof.pi_a[1]), p256(proof.pi_a[2]),
      p256(proof.pi_b[1][2]), p256(proof.pi_b[1][1]),
      p256(proof.pi_b[2][2]), p256(proof.pi_b[2][1]),
      p256(proof.pi_c[1]), p256(proof.pi_c[2])>>
    \o [k \in 1..Len(publicSignals) |-> p256(publicSignals[k])]

\* parseSolidityCallData: the first eight tokens are a, b and c, the rest are
\* the public signals
parseSolidityCallData(tokens) ==
    [a |-> SubSeq(tokens, 1, 2),
     b |-> <<SubSeq(tokens, 3, 4), SubSeq(tokens, 5, 6)>>,
     c |-> SubSeq(tokens, 7, 8),
     publicInput |-> SubSeq(tokens, 9, Len(tokens))]

\* the export and the parse, one after the other
finalProofObject(p) ==
    parseSolidityCallData(exportSolidityCallData(p.proof, p.publicSignals))

\* verifyProof of index.js: reads verification_key.json (throws if it cannot)
\* and returns what snarkjs.groth16.verify returns
verifyProofLocal(proof, e) ==
    IF e.vkey = "missing" THEN Thrown("ENOENT")
    ELSE Returned(e.vkey = "ok")

\* if (!isValid): whether generateZKProof lets the proof through
Verified(v) == ~v.thrown /\ v.value

\* generateZKProof(input): prove (a failure is rethrown), verify locally,
\* throw unless the verification returned true, export the calldata
generateZKProof(input, e) ==
    LET p == fullProve(input, e) IN
    IF p.thrown THEN Thrown("Proof generation failed in 'snarkjs.groth16.fullProve'")
    ELSE LET v == verifyProofLocal(p.value, e) IN
         IF v.thrown THEN v
         ELSE IF ~Verified(v) THEN Thrown("Proof verification failed.")
         ELSE Returned(finalProofObject(p.value))

\* generateProof(input) of utils.js: prove, call verifyProof, whose outcome is
\* only logged (it catches its own errors and returns nothing), export
generateProofUtils(input, e) ==
    LET p == fullProve(input, e) IN
    IF p.thrown THEN p ELSE Returned(finalProofObject(p.value))

Assemblers == {"generateZKProof", "generateProof"}

Assemble(asm, input, e) ==
    IF asm = "generateZKProof" THEN generateZKProof(input, e)
    ELSE generateProofUtils(input, e)

\* the one message each handler has for a failed assembly
InvalidCode(s) ==
    IF s = "app" THEN "Invalid OTP or proof generation failed."
    ELSE "Invalid OTP provided. Please check and try again."

Answer(status, body, proof) == [status |-> status, body |-> body, proof |-> proof]

\* a catch that answers 500 and passes the error's own message on
AssemblyFailedInternal(s, error) == Answer(500, error, NoProof)

\* the catch around generateZKProof: 400, status 'error', the fixed message
AssemblyFailed(s, error) == Answer(400, InvalidCode(s), NoProof)

\* what becomes of an error thrown outside that catch: app.js answers 500
\* from its outer catch; the function has no catch of its own and the
\* platform answers 500 for it
Failed(s) ==
    IF s = "app" THEN Answer(500, "Internal Server Error", NoProof)
    ELSE Answer(500, "unhandled", NoProof)

\* the user lookup: .single() errors unless exactly one row matches (the error
\* is thrown); the document lookup answers 404 for an absent document
LookupFails(s, rows) ==
    IF s = "app" THEN Len(rows) # 1 ELSE rows = << >>

LookupFailed(s) ==
    IF s = "app" THEN Failed(s) ELSE Answer(404, "User not found", NoProof)

\* POST /generateProof (app.js), generateProof (functions): the answer to a
\* request carrying uid and otp, at time step ts, with the nonce drawn
generateProofAnswer(s, rows, e, uid, otp, ts, actionHash, txNonce) ==
    IF LookupFails(s, rows) THEN LookupFailed(s)
    ELSE LET d == decryptWithSalt(rows[1], uid, e.password) IN
         IF d.thrown THEN Failed(s)
         ELSE IF BigIntThrows(otp) THEN Failed(s)
         ELSE LET r == generateZKProof(
                           ProofInput(d.value, otp.value, ts, actionHash, txNonce), e)
              IN IF r.thrown THEN AssemblyFailed(s, r.error)
                 ELSE Answer(200, "ok", r.value)

NoReply ==
    [op |-> "none", uid |-> "", otp |-> [kind |-> "text", value |-> 0], step |-> 0,
     asm |-> "", status |-> 0, body |-> "", proof |-> NoProof]

\* a proof request is answered
generateProofRequest(uid, otp, txNonce) ==
    /\ server \in TwoStepServers
    /\ LET a == generateProofAnswer(server, users[uid], env, uid, otp, now,
                                    ActionHash(someUser, 0, << >>), txNonce)
       IN reply' = [op |-> "generateProof", uid |-> uid, otp |-> otp, step |-> now,
                    asm |-> "generateZKProof", status |-> a.status, body |-> a.body,
                    proof |-> a.proof]
    /\ UNCHANGED now

\* an assembler is called with the input object for a secret and an otp
assemble(asm, secret, otpValue, txNonce) ==
    /\ LET r == Assemble(asm, ProofInput(secret, otpValue, now,
                                         ActionHash(someUser, 0, << >>), txNonce), env)
       IN reply' = [op |-> "assemble", uid |-> "", otp |-> [kind |-> "number",
                                                           value |-> otpValue],
                    step |-> now, asm |-> asm,
                    status |-> IF r.thrown THEN 0 ELSE 200,
                    body |-> r.error,
                    proof |-> IF r.thrown THEN NoProof ELSE r.value]
    /\ UNCHANGED now

\* Math.floor(Date.now() / 30000) moves on
Tick ==
    /\ now < MaxStep
    /\ now' = now + 1
    /\ UNCHANGED reply

----------------------------------------------------------------------------
(* The off-ledger service: the code of a time step *)

\* digests an HMAC may give: every byte the same or the bytes rising, around
\* the values where the top bit of a byte is set, with every low nibble and
\* some high ones in the last byte
Fills == {0, 127, 128, 255}

Rises == {0, 9}

LastBytes == 0..31 \cup {240, 255}

Digests ==
    {[i \in 1..DigestLen |-> IF i = DigestLen THEN lastByte
                                ELSE (fill + (i - 1) * rise) % 256] :
        fill \in Fills, rise \in Rises, lastByte \in LastBytes}

\* computeTOTP6 from the digest on
truncate(digest) ==
    probe' = [fn |-> "truncate", digest |-> digest, secret |-> 0, step |-> 0,
              offset |-> Offset(digest), binCode |-> BinCode(digest),
              code |-> DynamicTruncation(digest), before |-> << >>]

\* computeTOTP6(secretBytes, timeStep) is called; the calls before are kept
\* beside it with what they returned
computeTOTP6Call(secret, timeStep) ==
    LET digest == HmacSha1(secret, timeStep) IN
    probe' = [fn |-> "computeTOTP6", digest |-> digest, secret |-> secret,
              step |-> timeStep, offset |-> Offset(digest),
              binCode |-> BinCode(digest),
              code |-> computeTOTP6(secret, timeStep),
              before |-> IF probe.fn = "computeTOTP6" /\ Len(probe.before) < MaxRequests
                         THEN Append(probe.before,
                                     [secret |-> probe.secret, step |-> probe.step,
                                      code |-> probe.code])
                         ELSE << >>]

----------------------------------------------------------------------------
(* The off-ledger service: a secret encrypted and decrypted again *)

\* the empty string
NoText == 0

\* what encryptWithSalt may be given as plaintext and as salt
Plaintexts == RawSecrets \cup {NoText}

Salts == Uids \cup {""}

\* `${iv}:${encrypted}:${authTag}`: the three parts of the string; the
\* ciphertext is the text under the key
Joined(blob) == <<blob.iv, <<blob.key, blob.text>>, blob.authTag>>

\* encryptedString.split(':'), destructured
Split(parts) ==
    [iv |-> parts[1], key |-> parts[2][1], text |-> parts[2][2], authTag |-> parts[3]]

\* encryptWithSalt from its validation on: an empty plaintext throws,
\* otherwise the string is returned
encryptWithSaltString(plaintext, salt, iv) ==
    IF plaintext = NoText
    THEN Thrown("The 'plaintext' argument must be a non-empty string.")
    ELSE Returned(Joined(encryptWithSalt(plaintext, salt, iv)))

\* decryptWithSalt on the string
decryptWithSaltString(parts, salt, password) ==
    decryptWithSalt(Split(parts), salt, password)

NoString == << >>

\* a secret is encrypted for an id, with the IV crypto.randomBytes gives, and
\* what was returned is decrypted for the same id; the call before is kept
\* beside it
roundTrip(plaintext, salt) ==
    \E iv \in IVs :
        LET s == encryptWithSaltString(plaintext, salt, iv)
            d == IF s.thrown THEN s ELSE decryptWithSaltString(s.value, salt, env.password)
        IN probe' = [fn |-> "encryptWithSalt", plaintext |-> plaintext, salt |-> salt,
                     iv |-> iv, thrown |-> s.thrown,
                     string |-> IF s.thrown THEN NoString ELSE s.value,
                     decrypted |-> d,
                     before |-> IF probe.fn = "encryptWithSalt"
                                THEN [plaintext |-> probe.plaintext, salt |-> probe.salt,
                                      iv |-> probe.iv, string |-> probe.string]
                                ELSE [plaintext |-> NoText, salt |-> "", iv |-> 0,
                                      string |-> NoString]]

----------------------------------------------------------------------------
(* The off-ledger service: the action hash and the proof issued for it *)

\* what a request gives as (to, value, data): the triples, a to that is no
\* address, a value that is neither a string nor a number
ActionArgs ==
    [t : Triples, toIsAddress : {TRUE}, valueType : {"number"}]
    \cup [t : {[to |-> someUser, value |-> 0, data |-> << >>]},
          toIsAddress : {FALSE}, valueType : {"number"}]
    \cup [t : {[to |-> someUser, value |-> 0, data |-> << >>]},
          toIsAddress : {TRUE}, valueType : {"object"}]

\* ethers.utils.solidityPack(["address", "uint256", "bytes"], [to, value, data])
solidityPack(to, value, data) == <<to, value>> \o data

\* computeActionHash(to, value, data): the two checks, then the keccak256 of
\* the packed string as ethers returns it
computeActionHash(x) ==
    IF ~x.toIsAddress THEN Thrown("Invalid Ethereum address")
    ELSE IF x.valueType \notin {"string", "number"} THEN Thrown("Invalid value type")
    ELSE Returned(keccak256(solidityPack(x.t.to, x.t.value, x.t.data)))

\* the input array of execute, read off the public signals of a proof object
\* by the indices the ledger uses
LedgerInput(publicInput) ==
    [hashedSecret |-> publicInput[1][2], hashedOtp |-> publicInput[2][2],
     timeStep |-> publicInput[3][2], actionHash |-> publicInput[4][2],
     txNonce |-> publicInput[5][2]]

\* the handler from the action hash on, for the secret of a registered
\* account and the code of the moment: the hash is computed, the input object
\* is built and the assembler is called
issueProof(x, secret, txNonce) ==
    /\ LET h == computeActionHash(x)
           input == ProofInput(secret, computeTOTP6(secret, now), now, h.value, txNonce)
           r == IF h.thrown THEN h ELSE generateZKProof(input, env)
       IN probe' = [fn |-> "issueProof", x |-> x, hashed |-> ~h.thrown,
                    actionHash |-> h.value, input |-> input,
                    thrown |-> r.thrown,
                    proof |-> IF r.thrown THEN NoProof ELSE r.value]

----------------------------------------------------------------------------
(* Initial states and next-state relations *)

\* no library function called yet
NoProbe == [fn |-> "none"]

\* no call made on the TrafficLightZkOTP contract yet
NoGateCall ==
    [op |-> "none", caller |-> "", input |-> NoSignals, ok |-> FALSE, res |-> "ok",
     pre |-> FALSE, event |-> << >>, toggles |-> 0, accepted |-> {}]

\* the packaged TrafficLightZkOTP, as constructed
GateIdle ==
    /\ gate = "switchLight"
    /\ greenLight = FALSE
    /\ gateLast = NoGateCall

\* no account, no request, the clock at its first step, everything in place
ServiceIdle ==
    /\ probe = NoProbe
    /\ GateIdle
    /\ users = [u \in Uids |-> << >>]
    /\ reqs = [p \in Slots |-> Idle]
    /\ userRegistrationCache = [u \in Uids |-> "none"]
    /\ clientOk = {}
    /\ clientLast = NoCall
    /\ now = 0
    /\ env = Healthy("withOutputs")
    /\ reply = NoReply

Init ==
    /\ WalletInit
    /\ variant = "hardhat"
    /\ server = "app"
    /\ ServiceIdle

\* execute(_to, _value, _data, a, b, c, input) up to the target call: a failed
\* require reverts the call; otherwise the nonce is marked and the target
\* call starts.  Called from outside or, re-entrantly, from a running target.
ExecuteBegin(t, input) ==
    LET r == ExecuteChecks(t, input) IN
    /\ Len(stack) < MaxDepth
    /\ performed[input.txNonce] < MaxPerformed
    /\ IF r # "pass"
       THEN /\ usedNonces' = NoncesOnRevert(input.txNonce)
            /\ last' = Outcome("execute", r, 0, 0, t, input, WalletState,
                               Len(stack))
            /\ UNCHANGED <<owner, admin, hashedSecretConfig, shouldVerify,
                           performed, stack>>
       ELSE /\ usedNonces' = NoncesDuringCall(input.txNonce)
            /\ stack' = Append(stack, [t |-> t, input |-> input,
                                       snap |-> WalletState])
            /\ last' = Outcome("execute", "calling", 0, 0, t, input,
                               WalletState, Len(stack))
            /\ UNCHANGED <<owner, admin, hashedSecretConfig, shouldVerify, performed>>

Top == stack[Len(stack)]

Pop == SubSeq(stack, 1, Len(stack) - 1)

\* (bool success, ) = _to.call{value: _value}(_data) returns true: execute ends
TargetReturns ==
    /\ stack # << >>
    /\ performed' = [performed EXCEPT ![Top.input.txNonce] = @ + 1]
    /\ stack' = Pop
    /\ last' = Outcome("execute", "ok", 0, 0, Top.t, Top.input, Top.snap,
                       Len(stack) - 1)
    /\ UNCHANGED <<owner, admin, hashedSecretConfig, usedNonces, shouldVerify>>

\* the target call returns false: require(success, "Action execution failed")
\* reverts execute, and with it everything done since it was entered
TargetFails ==
    /\ stack # << >>
    /\ owner' = Top.snap.owner
    /\ admin' = Top.snap.admin
    /\ hashedSecretConfig' = Top.snap.hashedSecretConfig
    /\ usedNonces' = NoncesOnTargetFailure(Top.snap)
    /\ performed' = Top.snap.performed
    /\ stack' = Pop
    /\ last' = Outcome("execute", "Action execution failed", 0, 0, Top.t,
                       Top.input, Top.snap, Len(stack) - 1)
    /\ UNCHANGED shouldVerify

\* The administrative calls are transactions of their own: the roles are held
\* by externally owned accounts, which do not act inside a target call.

\* setOwner(_newOwner), onlyOwner
setOwner(caller, newOwner) ==
    /\ stack = << >>
    /\ IF caller # owner
       THEN /\ last' = Outcome("setOwner", "Not owner", caller, newOwner, NoArgs,
                               NoSignals, WalletState, 0)
            /\ UNCHANGED owner
       ELSE /\ owner' = newOwner
            /\ last' = Outcome("setOwner", "ok", caller, newOwner, NoArgs,
                               NoSignals, WalletState, 0)
    /\ UNCHANGED <<admin, hashedSecretConfig, usedNonces, shouldVerify, performed, stack>>

\* setAdmin(_newAdmin): onlyOwner in one contract, onlyAdmin in the other
setAdmin(caller, newAdmin) ==
    /\ stack = << >>
    /\ IF caller # AdminGate.account
       THEN /\ last' = Outcome("setAdmin", AdminGate.error, caller, newAdmin, NoArgs,
                               NoSignals, WalletState, 0)
            /\ UNCHANGED admin
       ELSE /\ admin' = newAdmin
            /\ last' = Outcome("setAdmin", "ok", caller, newAdmin, NoArgs,
                               NoSignals, WalletState, 0)
    /\ UNCHANGED <<owner, hashedSecretConfig, usedNonces, shouldVerify, performed, stack>>

\* setHashedSecretConfig(_hashedSecretConfig), onlyOwner
setHashedSecretConfig(caller, newConfig) ==
    /\ stack = << >>
    /\ IF caller # owner
       THEN /\ last' = Outcome("setHashedSecretConfig", "Not owner", caller,
                               newConfig, NoArgs, NoSignals, WalletState, 0)
            /\ UNCHANGED hashedSecretConfig
       ELSE /\ hashedSecretConfig' = newConfig
            /\ last' = Outcome("setHashedSecretConfig", "ok", caller, newConfig,
                               NoArgs, NoSignals, WalletState, 0)
    /\ UNCHANGED <<owner, admin, usedNonces, shouldVerify, performed, stack>>

\* VerifierMock.setShouldVerify(_val), between transactions
setShouldVerify(val) ==
    /\ stack = << >>
    /\ shouldVerify' = val
    /\ last' = Outcome("setShouldVerify", "ok", 0, 0, NoArgs, NoSignals, WalletState, 0)
    /\ UNCHANGED <<owner, admin, hashedSecretConfig, usedNonces, performed, stack>>

\* a call on the wallet leaves the deployment as it is
Wallet(call) ==
    call /\ UNCHANGED <<variant, server, registerVars, env, proofVars, probe, gateVars>>

Next ==
    \/ \E t \in Triples, input \in Signals : Wallet(ExecuteBegin(t, input))
    \/ Wallet(TargetReturns)
    \/ Wallet(TargetFails)
    \/ \E caller \in Addresses, a \in NewOwners : Wallet(setOwner(caller, a))
    \/ \E caller \in Addresses, a \in NewAdmins : Wallet(setAdmin(caller, a))
    \/ \E caller \in Addresses, h \in HashedSecrets :
           Wallet(setHashedSecretConfig(caller, h))
    \/ \E val \in BOOLEAN : Wallet(setShouldVerify(val))

Spec == Init /\ [][Next]_vars

\* The administrative calls alone, on either deployed contract
InitRoles ==
    /\ WalletInit
    /\ variant \in Variants
    /\ server = "app"
    /\ ServiceIdle

NextRoles ==
    \/ \E caller \in Addresses, a \in NewOwners : Wallet(setOwner(caller, a))
    \/ \E caller \in Addresses, a \in NewAdmins : Wallet(setAdmin(caller, a))
    \/ \E caller \in Addresses, h \in HashedSecrets :
           Wallet(setHashedSecretConfig(caller, h))

SpecRoles == InitRoles /\ [][NextRoles]_vars

\* Registration, on any of the servers
InitRegister ==
    /\ WalletInit
    /\ variant = "hardhat"
    /\ server \in Servers
    /\ ServiceIdle

\* a call on the registration side leaves the rest as it is
Registration(call) ==
    call /\ UNCHANGED <<walletVars, variant, server, env, proofVars, probe, gateVars>>

NextRegister ==
    \/ \E p \in Slots, uid \in Applicants, secret \in RawSecrets :
           Registration(registerUserRead(p, uid, secret))
    \/ \E p \in Slots : Registration(registerUserWrite(p))
    \/ \E p \in Slots, uid \in Applicants, secret \in RawSecrets :
           Registration(userRegister(p, uid, secret))

SpecRegister == InitRegister /\ [][NextRegister]_vars

\* The demo client, against the server whose routes it calls
InitClient ==
    /\ WalletInit
    /\ variant = "hardhat"
    /\ server = "firestore"
    /\ ServiceIdle

NextClient ==
    \/ \E uid \in Uids : Registration(checkUser(uid))
    \/ \E uid \in Uids, secret \in RawSecrets :
           Registration(registerUserClient(uid, secret))

SpecClient == InitClient /\ [][NextClient]_vars

\* what may have become of a stored secret: intact, its ciphertext altered
\* (the tag no longer authenticates it), its tag cut off
Blobs(uid, secret) ==
    {[encryptWithSalt(secret, uid, 0) EXCEPT !.authTag = tag] :
        tag \in {"valid", "altered", ""}}

\* Proof requests: "alice" is registered, "bob" is not; the stored blob and
\* the environment are any of those above
InitProof ==
    /\ WalletInit
    /\ variant = "hardhat"
    /\ server \in TwoStepServers
    /\ \E secret \in RawSecrets : \E blob \in Blobs("alice", secret) :
           users = [u \in Uids |-> IF u = "alice" THEN <<blob>> ELSE << >>]
    /\ reqs = [p \in Slots |-> Idle]
    /\ userRegistrationCache = [u \in Uids |-> "none"]
    /\ clientOk = {}
    /\ clientLast = NoCall
    /\ now = 0
    /\ env \in Envs
    /\ reply = NoReply
    /\ probe = NoProbe
    /\ GateIdle

Proving(call) ==
    call /\ UNCHANGED <<walletVars, variant, server, registerVars, env, probe, gateVars>>

NextProof ==
    \/ \E uid \in Uids, otp \in Otps, n \in Nonces :
           Proving(generateProofRequest(uid, otp, n))
    \/ \E asm \in Assemblers, secret \in RawSecrets, c \in Codes, n \in Nonces :
           Proving(assemble(asm, secret, c, n))
    \/ Proving(Tick)

SpecProof == InitProof /\ [][NextProof]_vars

\* a call of a library function leaves everything else as it is
Library(call) ==
    call /\ UNCHANGED <<walletVars, variant, server, registerVars, env, proofVars,
                        gateVars>>

\* The action hash and the proof issued for it, in any environment
InitBinding ==
    /\ WalletInit
    /\ variant \in Variants
    /\ server = "app"
    /\ users = [u \in Uids |-> << >>]
    /\ reqs = [p \in Slots |-> Idle]
    /\ userRegistrationCache = [u \in Uids |-> "none"]
    /\ clientOk = {}
    /\ clientLast = NoCall
    /\ now = 0
    /\ env \in Envs
    /\ reply = NoReply
    /\ probe = NoProbe
    /\ GateIdle

NextBinding ==
    \E x \in ActionArgs, secret \in RawSecrets, n \in Nonces :
        Library(issueProof(x, secret, n))

SpecBinding == InitBinding /\ [][NextBinding]_vars

\* Encryption and decryption, in one process
InitVault ==
    /\ WalletInit
    /\ variant = "hardhat"
    /\ server \in Servers
    /\ ServiceIdle

NextVault ==
    \E plaintext \in Plaintexts, salt \in Salts : Library(roundTrip(plaintext, salt))

SpecVault == InitVault /\ [][NextVault]_vars

\* The code of a time step, for the digests and for the secrets
InitTotp ==
    /\ WalletInit
    /\ variant = "hardhat"
    /\ server \in Servers
    /\ ServiceIdle

NextTotp ==
    \/ \E digest \in Digests : Library(truncate(digest))
    \/ \E secret \in RawSecrets, ts \in TimeSteps :
           Library(computeTOTP6Call(secret, ts))

SpecTotp == InitTotp /\ [][NextTotp]_vars

\* execute called from outside, not from a running target
ExecuteFromOutside(t, input) ==
    /\ stack = << >>
    /\ ExecuteBegin(t, input)

\* Proofs of any age, executed from outside while time passes
NextFreshness ==
    \/ \E input \in SignalsOfAnyAge :
           Wallet(ExecuteFromOutside([to |-> someUser, value |-> 0, data |-> << >>],
                                     input))
    \/ Wallet(TargetReturns)
    \/ Wallet(TargetFails)
    \/ \E h \in HashedSecrets : Wallet(setHashedSecretConfig(owner, h))
    \/ Proving(Tick)

SpecFreshness == Init /\ [][NextFreshness]_vars

\* a call on TrafficLightZkOTP leaves the wallet and the service as they are
Gate(call) ==
    call /\ UNCHANGED <<walletVars, variant, server, registerVars, env, proofVars,
                        probe>>

\* Either TrafficLightZkOTP, over the VerifierMock
InitGate ==
    /\ WalletInit
    /\ variant = "foundry"
    /\ server = "app"
    /\ users = [u \in Uids |-> << >>]
    /\ reqs = [p \in Slots |-> Idle]
    /\ userRegistrationCache = [u \in Uids |-> "none"]
    /\ clientOk = {}
    /\ clientLast = NoCall
    /\ now = 0
    /\ env = Healthy("withOutputs")
    /\ reply = NoReply
    /\ probe = NoProbe
    /\ gate \in Gates
    /\ greenLight = FALSE
    /\ gateLast = NoGateCall

NextGate ==
    \/ \E caller \in GateCallers, input \in GateInputs : Gate(switchLight(caller, input))
    \/ \E caller \in GateCallers, input \in GateInputs : Gate(turnOn(caller, input))
    \/ \E caller \in GateCallers, input \in GateInputs : Gate(turnOff(caller, input))
    \/ \E val \in BOOLEAN : Wallet(setShouldVerify(val))

SpecGate == InitGate /\ [][NextGate]_vars

----------------------------------------------------------------------------
(* What the most recent call was, read from its record.  Every call rewrites *)
(* last, shouldVerify and the administrative fields change only between      *)
(* transactions, so while last is the record of an execute they are what    *)
(* that execute saw on entry.                                                *)

IsExecute == last.op = "execute"

\* the execute got past its four checks (its target call is running or has
\* returned true)
Passed == IsExecute /\ last.res \in {"calling", "ok"}

Succeeded == IsExecute /\ last.res = "ok"

Rejected == IsExecute /\ last.res \in Rejections

OracleAccepts == shouldVerify

SecretDiffers == last.input.hashedSecret # last.pre.hashedSecretConfig

HashMatches == last.input.actionHash = ActionHash(last.t.to, last.t.value, last.t.data)

NonceFresh == last.input.txNonce \notin last.pre.usedNonces

\* the triples whose action hash is the one in the signals
AuthorizedBy(input) == {t \in Triples : ActionHash(t.to, t.value, t.data) = input.actionHash}

\* a proof object was issued and carries the five signals the ledger reads
Issued == probe.fn = "issueProof" /\ ~probe.thrown

IssuedForLedger == Issued /\ Len(probe.proof.publicInput) = 5

\* the values given to the proving oracle, in the protocol's order
GivenToOracle(input) ==
    <<input.hashedSecret, input.hashedOtp, input.timeStep, input.actionHash,
      input.txNonce>>

----------------------------------------------------------------------------
(* Claims *)

\* C1: at most one execute carrying a given txNonce ever succeeds: the target
\* call is performed at most once per nonce, over any sequence of execute
\* (re-entrant ones included) and administrative calls, and an execute that
\* succeeds found its nonce unused.
C1_NonceSucceedsOnce ==
    /\ \A n \in Nonces : performed[n] <= 1
    /\ Succeeded => NonceFresh

\* a second execute with the nonce of one that succeeded has been turned down
C1_Witness ==
    /\ Rejected
    /\ performed[last.input.txNonce] = 1
    /\ last.res = "Nonce already used"

C3_InvalidProofFirst ==
    (IsExecute /\ ~OracleAccepts)
       => /\ last.res = "Invalid ZK proof"
          /\ WalletState = last.pre
          /\ Len(stack) = last.depth

\* the oracle rejected a call whose hashed secret, action hash and nonce
\* would all have failed as well
C3_Witness ==
    /\ IsExecute
    /\ last.res = "Invalid ZK proof"
    /\ ~SecretDiffers /\ ~HashMatches /\ ~NonceFresh

\* C4: an execute whose hashed secret equals hashedSecretConfig, as most
\* recently set, fails with 'Invalid hashed secret' although the oracle accepts
\* the proof.
C4_RevokedSecretRejected ==
    (IsExecute /\ OracleAccepts /\ last.input.hashedSecret = hashedSecretConfig)
       => last.res = "Invalid hashed secret"

\* the owner has set the config to a value other than the default and an
\* accepted proof with that hashed secret was turned down
C4_Witness ==
    /\ IsExecute
    /\ OracleAccepts
    /\ hashedSecretConfig # 0
    /\ last.input.hashedSecret = hashedSecretConfig
    /\ HashMatches /\ NonceFresh
    /\ last.res = "Invalid hashed secret"


MismatchReason ==
    IF ~OracleAccepts THEN "Invalid ZK proof"
    ELSE IF ~SecretDiffers THEN "Invalid hashed secret"
    ELSE "Action hash mismatch"

EarliestFailure ==
    IF ~OracleAccepts THEN "Invalid ZK proof"
    ELSE IF ~SecretDiffers THEN "Invalid hashed secret"
    ELSE IF ~HashMatches THEN "Action hash mismatch"
    ELSE IF ~NonceFresh THEN "Nonce already used"
    ELSE "none"

C8_RejectionChangesNothing ==
    Rejected
       => /\ hashedSecretConfig = last.pre.hashedSecretConfig
          /\ usedNonces = last.pre.usedNonces
          /\ owner = last.pre.owner
          /\ admin = last.pre.admin
          /\ performed = last.pre.performed
          /\ Len(stack) = last.depth

\* a call with an unused nonce was turned down by the action hash check
C8_Witness ==
    /\ Rejected
    /\ last.res = "Action hash mismatch"
    /\ NonceFresh
    /\ last.input.txNonce \notin usedNonces

\* the execute calls that were in progress when the most recent call was made
InProgress == {stack[i] : i \in 1..(IF last.depth < Len(stack) THEN last.depth ELSE Len(stack))}

AllChecksHold == OracleAccepts /\ SecretDiffers /\ HashMatches /\ NonceFresh

----------------------------------------------------------------------------
(* The administrative calls, read from the record of the most recent call *)

IsRoleCall == last.op \in {"setOwner", "setAdmin", "setHashedSecretConfig"}

\* owner, admin and hashedSecretConfig are what they were when the call began
RolesUntouched ==
    /\ owner = last.pre.owner
    /\ admin = last.pre.admin
    /\ hashedSecretConfig = last.pre.hashedSecretConfig

\* C11, as stated: a call of setOwner, setAdmin or setHashedSecretConfig by an
\* account other than the owner of the moment (the admin included) fails with
\* 'Not owner' and leaves owner, admin and hashedSecretConfig as they were.
\* The wallet of the Foundry suite breaks it: its setAdmin answers to the
\* admin, and tells everyone else 'Not admin'.
C11_Original ==
    (IsRoleCall /\ last.caller # last.pre.owner) =>
        (last.res = "Not owner" /\ RolesUntouched)

ValueBefore ==
    IF last.op = "setOwner" THEN last.pre.owner
    ELSE IF last.op = "setAdmin" THEN last.pre.admin
    ELSE last.pre.hashedSecretConfig

\* C13, as stated: a successful setOwner, setAdmin or setHashedSecretConfig
\* emits an event whose first argument is the value held before the call and
\* whose second is the new value.  HashedSecretConfigChanged breaks it: the
\* first setHashedSecretConfig(v) emits (v, v), not (0, v).
C13_Original ==
    (IsRoleCall /\ last.res = "ok") =>
        /\ Len(last.event) = 3
        /\ last.event[2] = ValueBefore
        /\ last.event[3] = last.arg

----------------------------------------------------------------------------
(* Proof requests, read from the record of the most recent one *)

IsProofRequest == reply.op = "generateProof"

\* the one row or document held for the uid of the request
StoredRow == users[reply.uid][1]

\* the tag authenticates the blob under the key derived from the password
\* configured now
Authentic ==
    /\ StoredRow.authTag = "valid"
    /\ StoredRow.key = <<env.password, reply.uid>>

\* the account is there, once, and its secret can be revealed
AccountReadable == Len(users[reply.uid]) = 1 /\ Authentic

\* the 6-digit code of the stored secret at the time step of the request
CodeNow == computeTOTP6(StoredRow.text, reply.step)

OtpIsCode == reply.otp.kind = "number" /\ reply.otp.value = CodeNow

AnsweredOk == reply.status = 200 /\ reply.body = "ok" /\ reply.proof # NoProof

InvalidCodeMessages ==
    {"Invalid OTP or proof generation failed.",
     "Invalid OTP provided. Please check and try again."}

AnsweredInvalidCode ==
    /\ reply.status = 400
    /\ reply.body \in InvalidCodeMessages
    /\ reply.proof = NoProof

\* C14, as stated: a proof request is answered {status: ok, proof} only if its
\* otp is the code of the stored secret at the server's time step, and for
\* any other otp it is answered with the invalid-code response and no proof.
\* An otp that is no number breaks the second half: BigInt(otp) throws before
\* the prover is reached and the request is answered 500.
C14_Original ==
    IsProofRequest =>
        /\ AnsweredOk => (AccountReadable /\ OtpIsCode)
        /\ (AccountReadable /\ ~OtpIsCode) => AnsweredInvalidCode

----------------------------------------------------------------------------
(* Registration requests, read from their records *)

Done(p) == reqs[p].pc = "done"

\* C15, as stated: on every server, a register for a uid that is registered
\* when the request arrives is answered 'User already exists' and leaves what
\* the store holds for the uid as it was.  POST /user/register breaks it: it
\* sets the document (or the map entry) without a look at the store.
C15_Original ==
    \A p \in Slots :
        (Done(p) /\ reqs[p].registered) =>
            /\ reqs[p].status = 400
            /\ reqs[p].body = "User already exists"
            /\ reqs[p].kept

\* C16, as stated: of two register requests for one uid whose store reads and
\* writes were interleaved, at most one is answered with success, and the
\* store ends with one record for the uid, holding the secret of the request
\* that succeeded.  The select-then-insert and get-then-set handlers break
\* it: both requests read an empty store, both write, both are answered 200.
C16_Original ==
    \A p, q \in Slots :
        (p # q /\ Done(p) /\ Done(q) /\ reqs[p].uid = reqs[q].uid /\ q \in reqs[p].with) =>
            /\ ~(reqs[p].status = 200 /\ reqs[q].status = 200)
            /\ Len(users[reqs[p].uid]) = 1
            /\ reqs[p].status = 200 => users[reqs[p].uid][1].text = reqs[p].secret

\* C17, as stated: once registerUser(uid) has returned true at the demo
\* client, the server holds the uid and checkUser(uid) answers registered:
\* true, whatever earlier checkUser(uid) calls answered.  The client breaks
\* it: a 'not registered' answer cached before the registration is returned
\* after it.
C17_Original ==
    (clientLast.op = "checkUser" /\ clientLast.after) =>
        /\ clientLast.stored
        /\ clientLast.registered

----------------------------------------------------------------------------
(* The proof assemblers and what the handlers make of their failures *)

IsAssembly == reply.op = "assemble"

\* the local verification returns true
VerifiesLocally == env.vkey = "ok"

\* C18, as stated: whichever assembler is called, when the local verification
\* of the proof does not return true (it returns false, or throws) no proof
\* is returned.  generateProof of utils.js breaks it: its verifyProof logs the
\* outcome and returns nothing, and the proof is returned all the same.
C18_Original ==
    (IsAssembly /\ ~VerifiesLocally) => reply.proof = NoProof

\* the handler got as far as calling the assembler
AssemblyReached ==
    IsProofRequest /\ AccountReadable /\ reply.otp.kind = "number"

\* the assembler throws: the witness is inconsistent (the otp is not the
\* code), the prover cannot run, or the local verification fails
AssemblyFails == ~OtpIsCode \/ env.prover # "ok" \/ ~VerifiesLocally

FixedMessage ==
    IF server = "app" THEN "Invalid OTP or proof generation failed."
    ELSE "Invalid OTP provided. Please check and try again."

\* C19: whatever makes the assembler throw, the handler answers 400 with its
\* one fixed message and no proof; never 500, and nothing that tells the
\* causes apart.
C19_UniformInvalidCode ==
    (AssemblyReached /\ AssemblyFails) =>
        /\ reply.status = 400
        /\ reply.body = FixedMessage
        /\ reply.proof = NoProof

\* the otp was the right code and the local verification failed: answered as
\* a wrong code is
C19_Witness ==
    /\ AssemblyReached
    /\ OtpIsCode
    /\ env.prover = "ok"
    /\ env.vkey = "mismatch"
    /\ reply.status = 400
    /\ reply.body = FixedMessage

\* the stored blob cannot be decrypted: it was altered, its tag is missing,
\* or the master password is not the one it was stored under
DecryptionFails == Len(users[reply.uid]) = 1 /\ ~Authentic

C21_Original ==
    IssuedForLedger =>
        HashOk(probe.x.t, LedgerInput(probe.proof.publicInput))

\* C22: the action hash computed off-ledger is reduced into the field-sized
\* range: every result r satisfies 0 <= r < P.  (The statement as the
\* specification makes it; computeActionHash returns the keccak256 output as
\* it is.)
C22_Original ==
    (probe.fn = "issueProof" /\ probe.hashed) =>
        (0 <= probe.actionHash /\ probe.actionHash < FieldPrime)

\* C23: the proof object has a of 2 coordinates, b of 2x2, c of 2, and exactly
\* five public signals, [hashedSecret, hashedOtp, timeStep, actionHash,
\* txNonce], equal position by position to the values given to the proving
\* oracle.  (The statement as the specification makes it; the packaged
\* circuit declares no public signal, and the action hash comes back reduced.)
C23_Original ==
    Issued =>
        /\ Len(probe.proof.a) = Len(ProofA)
        /\ Len(probe.proof.b) = Len(ProofB)
        /\ \A k \in 1..Len(probe.proof.b) : Len(probe.proof.b[k]) = Len(ProofB[k])
        /\ Len(probe.proof.c) = Len(ProofC)
        /\ IssuedForLedger
        /\ \A k \in 1..Len(probe.proof.publicInput) :
               probe.proof.publicInput[k] = p256(GivenToOracle(probe.input)[k])

IsRoundTrip == probe.fn = "encryptWithSalt" /\ probe.plaintext # NoText

\* the call before encrypted the same secret for the same id
SameAsBefore ==
    /\ IsRoundTrip
    /\ probe.before.plaintext = probe.plaintext
    /\ probe.before.salt = probe.salt

IsTotp == probe.fn \in {"truncate", "computeTOTP6"}

\* the four bytes the truncation reads, first to last
BytesRead == [k \in 1..4 |-> probe.digest[probe.offset + k]]

C25_Repeated ==
    /\ IsTotp
    /\ \E k \in 1..Len(probe.before) :
           /\ probe.before[k].secret = probe.secret
           /\ probe.before[k].step = probe.step

IsGateCall == gateLast.op # "none"

GateRejected == IsGateCall /\ ~gateLast.ok

GateAccepted == IsGateCall /\ gateLast.ok

\* the state a successful call of the operation leaves, from the state before
Documented(op, before) ==
    IF op = "switchLight" THEN ~before ELSE op = "turnOn"

\* C26: the light changes only inside a call (switchLight, turnOn, turnOff)
\* for which the verifier returned true; a call whose proof the verifier
\* rejects reverts with 'Invalid ZK proof', leaves the light as it was and
\* emits no LightToggled.
C26_LightChangesOnlyOnProof ==
    /\ [](GateRejected =>
             /\ gateLast.res = "Invalid ZK proof"
             /\ greenLight = gateLast.pre
             /\ gateLast.event = << >>)
    /\ [][greenLight' # greenLight =>
             /\ gateLast' # gateLast
             /\ gateLast'.op \in {"switchLight", "turnOn", "turnOff"}
             /\ gateLast'.ok
             /\ shouldVerify]_vars

\* a rejected call on a light that an earlier call had turned on
C26_Witness ==
    /\ GateRejected
    /\ gateLast.toggles > 0
    /\ greenLight
    /\ gateLast.res = "Invalid ZK proof"

\* C29: the light starts off; a successful switchLight negates greenLight and
\* emits LightToggled with the new state, so that after k successful
\* switchLight calls the light is on exactly when k is odd; a successful
\* turnOn leaves the light on and a successful turnOff leaves it off,
\* whatever it was before.
C29_DocumentedValue ==
    /\ ~IsGateCall => ~greenLight
    /\ GateAccepted =>
           /\ gateLast.res = "ok"
           /\ greenLight = Documented(gateLast.op, gateLast.pre)
           /\ gateLast.event = <<"LightToggled", greenLight>>
    /\ gate = "switchLight" => (greenLight <=> gateLast.toggles % 2 = 1)

\* the third successful switchLight, the light on
C29_Witness ==
    /\ GateAccepted
    /\ gateLast.op = "switchLight"
    /\ gateLast.toggles = 3
    /\ greenLight

\* the call passes an input that an earlier call was accepted with
Replayed == \E e \in gateLast.accepted : e.input = gateLast.input

\* C30: the contract keeps no nonce and checks no action hash: an input that
\* was accepted before is accepted again whenever the verifier accepts it, by
\* any caller and any number of times, and the call changes the light as a
\* call with a fresh input would.
C30_ProofReusable ==
    (GateAccepted /\ Replayed) =>
        /\ gateLast.res = "ok"
        /\ greenLight = Documented(gateLast.op, gateLast.pre)
        /\ gateLast.event # << >>

\* the same input accepted a third time, from another caller than before
C30_Witness ==
    /\ GateAccepted
    /\ gateLast.res = "ok"
    /\ gateLast.toggles = 3
    /\ \A e \in gateLast.accepted : e.input = gateLast.input
    /\ \E e \in gateLast.accepted : e.caller # gateLast.caller
    /\ greenLight # gateLast.pre

TargetCallFailed == IsExecute /\ last.res = "Action execution failed"

Twins(input) ==
    {s \in SignalsOfAnyAge :
        /\ s.hashedSecret = input.hashedSecret
        /\ s.actionHash = input.actionHash
        /\ s.txNonce = input.txNonce}

\* C28: the outcome of execute does not depend on timeStep or hashedOtp: in
\* any authorization state, two calls that differ in those two signals only
\* are answered alike by the checks, and a call that was turned down would
\* have been turned down for the same reason with any other time step and
\* hashed code; no check reads a clock.
C28_NoFreshnessWindow ==
    /\ \A t \in Triples, input \in SignalsOfAnyAge :
           \A twin \in Twins(input) : ExecuteChecks(t, twin) = ExecuteChecks(t, input)
    /\ Rejected =>
           \A twin \in Twins(last.input) : ExecuteChecks(last.t, twin) = last.res

\* a proof of an earlier time step, for a code hashed to something else than
\* the first proof's, executed after another proof had been
C28_Witness ==
    /\ Succeeded
    /\ last.input.timeStep < now
    /\ last.input.hashedOtp # 0
    /\ \E n \in Nonces : n # last.input.txNonce /\ n \in usedNonces

====
